---- MODULE Spec2Model ----
(***************************************************************************)
(* Outbound Redis host component (crates/outbound-redis/src/lib.rs):       *)
(* the connection table of one OutboundRedis instance, the handle-based    *)
(* v2 surface (open, nine operations, drop) and the address-based v1       *)
(* surface that delegates to it.  The Redis driver, the URL allow-list and *)
(* the table crate are collaborators; the driver's answers are inputs.     *)
(***************************************************************************)
EXTENDS Integers, Sequences, FiniteSets, TLC

VARIABLES
    connections,   \* OutboundRedis.connections: handle (rep) -> connection
    issued,        \* history: every resource [rep, id] handed to the guest
    closed,        \* handles dropped with no open call since
    nextId,        \* identity of the next connection the table stores
    pc,            \* "idle": the guest runs; "returned": a call has just returned
    last,          \* the call that has just returned, and what it did
    redis_value,   \* from_redis_value's argument: the reply the driver hands over
    redis_results  \* from_redis_value's result for redis_value, once it has run

vars == <<connections, issued, closed, nextId, pc, last, redis_value, redis_results>>

----------------------------------------------------------------------------
(* Bounds of the model. *)

\* Table capacity; lib.rs:43 configures 1024, the model runs a small table.
Capacity == 2

\* Number of connections the table may store in one behaviour.
MaxConns == 2

\* Number of nodes (scalars, markers, sequences) of a driver reply.
MaxNodes == 6

----------------------------------------------------------------------------
(* Addresses and the allow-list. *)

\* Externally supplied addresses, one of each kind the code distinguishes.
Addresses ==
    { "redis://cache.example:6379",      \* admitted, accepted by the client
      "redis://cache.example:6379/x",    \* admitted, rejected by redis::Client::open
      "redis://evil.example:6379",       \* host not in the policy
      "http://cache.example:6379",       \* wrong scheme
      "not a url" }                      \* does not parse as a URL

\* The parsed form of an address: whether it is a URL, its scheme, its
\* host:port and whether its path names a database index.
ParseUrl(address) ==
    CASE address = "redis://cache.example:6379" ->
           [url |-> TRUE, scheme |-> "redis", host |-> "cache.example:6379", db |-> TRUE]
      [] address = "redis://cache.example:6379/x" ->
           [url |-> TRUE, scheme |-> "redis", host |-> "cache.example:6379", db |-> FALSE]
      [] address = "redis://evil.example:6379" ->
           [url |-> TRUE, scheme |-> "redis", host |-> "evil.example:6379", db |-> TRUE]
      [] address = "http://cache.example:6379" ->
           [url |-> TRUE, scheme |-> "http", host |-> "cache.example:6379", db |-> TRUE]
      [] OTHER ->
           [url |-> FALSE, scheme |-> "", host |-> "", db |-> FALSE]

\* OutboundRedis.allowed_hosts: the loaded policy, immutable after load.
AllowedHosts == { "cache.example:6379", "db.example:6379" }

\* spin_outbound_networking::check_url(address, scheme, allowed_hosts).
check_url(address, scheme, allowed) ==
    LET u == ParseUrl(address) IN
    /\ u.url
    /\ u.scheme = scheme
    /\ u.host \in allowed

\* is_address_allowed with the host left unchecked against the policy.
is_address_allowed_AnyHost(address) ==
    ParseUrl(address).url /\ ParseUrl(address).scheme = "redis"

\* OutboundRedis::is_address_allowed.
is_address_allowed(address) == check_url(address, "redis", AllowedHosts)

\* redis::Client::open(address): whether the client accepts the address.
ClientOpen(address) ==
    LET u == ParseUrl(address) IN
    u.url /\ u.scheme = "redis" /\ u.db

----------------------------------------------------------------------------
(* Errors and results. *)

Ok(v) == [ok |-> TRUE, val |-> v]
Err(e) == [ok |-> FALSE, err |-> e]

\* spin_world::v2::redis::Error.
InvalidAddress == [kind |-> "InvalidAddress", msg |-> <<>>]
TooManyConnections == [kind |-> "TooManyConnections", msg |-> <<>>]
TypeError == [kind |-> "TypeError", msg |-> <<>>]
Other(m) == [kind |-> "Other", msg |-> m]

\* spin_world::v1::redis::Error has the single variant Error.
V1Error == [kind |-> "Error", msg |-> <<>>]

\* e.to_string() of a driver error or of a v2 Error.
to_string(e) == <<e.kind>> \o e.msg

\* fn other_error(e: impl Display) -> Error.
other_error(e) == Other(to_string(e))

\* Errors the driver reports: redis::RedisError with its ErrorKind.
DriverErrors ==
    { [kind |-> "TypeError", msg |-> <<"WRONGTYPE">>],
      [kind |-> "IoError", msg |-> <<"broken pipe">>] }

----------------------------------------------------------------------------
(* The connection table (crate table, Table<Connection>). *)

Slots == 0 .. (Capacity - 1)

Min(S) == CHOOSE x \in S : \A y \in S : x <= y

\* Table::push: fails when the table is full, else stores the value under
\* the lowest free key and returns the key.
TablePush(t, v) ==
    IF Cardinality(DOMAIN t) = Capacity
    THEN [ok |-> FALSE, key |-> 0, table |-> t]
    ELSE LET k == Min(Slots \ DOMAIN t) IN
         [ok |-> TRUE, key |-> k,
          table |-> [x \in DOMAIN t \cup {k} |-> IF x = k THEN v ELSE t[x]]]

\* Table::get_mut: the entry under the key, if any.
TableGetMut(t, k) ==
    IF k \in DOMAIN t THEN [some |-> TRUE, v |-> t[k]] ELSE [some |-> FALSE, v |-> 0]

\* Table::remove: removes the entry under the key, if any.
TableRemove(t, k) == [x \in DOMAIN t \ {k} |-> t[x]]

EmptyTable == [x \in {} |-> 0]

----------------------------------------------------------------------------
(* Driver replies (redis::Value) and the typed values made from them. *)

Nil == [t |-> "Nil"]
Okay == [t |-> "Okay"]
IntV(i) == [t |-> "Int", i |-> i]
Data(d) == [t |-> "Data", d |-> d]
Bulk(items) == [t |-> "Bulk", items |-> items]
Status(s) == [t |-> "Status", s |-> s]

\* spin_world::v2::redis::RedisResult variants that the code builds.
Int64(i) == [t |-> "Int64", i |-> i]
Binary(b) == [t |-> "Binary", b |-> b]
StatusResult(s) == [t |-> "Status", s |-> s]

None == [some |-> FALSE]
Some(v) == [some |-> TRUE, v |-> v]
Unit == [t |-> "Unit"]

\* append that pushes the scalars of the reply's top level only.
append_Shallow(values, value) ==
    LET one(vs, v) ==
            CASE v.t = "Int" -> Append(vs, Int64(v.i))
              [] v.t = "Data" -> Append(vs, Binary(v.d))
              [] v.t = "Status" -> Append(vs, StatusResult(v.s))
              [] OTHER -> vs
        RECURSIVE each(_, _)
        each(vs, i) ==
            IF i > Len(value.items) THEN vs
            ELSE each(one(vs, value.items[i]), i + 1)
    IN IF value.t = "Bulk" THEN each(values, 1) ELSE one(values, value)

\* RedisResults::from_redis_value, inner fn append: the depth-first walk.
RECURSIVE append(_, _)
append(values, value) ==
    CASE value.t \in {"Nil", "Okay"} -> values
      [] value.t = "Int" -> Append(values, Int64(value.i))
      [] value.t = "Data" -> Append(values, Binary(value.d))
      [] value.t = "Bulk" ->
           LET RECURSIVE each(_, _)
               each(vs, i) ==
                   IF i > Len(value.items) THEN vs
                   ELSE each(append(vs, value.items[i]), i + 1)
           IN each(values, 1)
      [] value.t = "Status" -> Append(values, StatusResult(value.s))

\* RedisResults::from_redis_value: always Ok(RedisResults(values)).
from_redis_value(value) == Ok(append(<<>>, value))

\* The driver's typed conversions used by the commands (FromRedisValue for
\* (), Option<Vec<u8>>, i64, u32 and Vec<String>).
FromValueUnit(v) == Unit
FromValueOptionBytes(v) == IF v.t = "Nil" THEN None ELSE Some(v.d)
FromValueInt(v) == v.i
FromValueStrings(v) == [i \in 1 .. Len(v.items) |-> v.items[i].d]

\* What the driver may answer to each command: a reply value or an error.
DriverReplies(name) ==
    { Err(e) : e \in DriverErrors } \cup
    CASE name \in {"PUBLISH", "SET"} -> { Ok(Okay) }
      [] name = "GET" -> { Ok(Nil), Ok(Data(<<>>)), Ok(Data(<<118>>)) }
      [] name = "INCRBY" -> { Ok(IntV(-1)) }
      [] name \in {"DEL", "SADD", "SREM"} -> { Ok(IntV(2)) }
      [] name = "SMEMBERS" -> { Ok(Bulk(<<Data(<<97>>), Data(<<98>>)>>)) }
      [] OTHER -> { Ok(Nil),
                    Ok(Bulk(<<IntV(1), Bulk(<<Data(<<97>>), Status("b")>>), Nil>>)) }

Keys == { "k" }
Members == { <<"a">> }
Payloads == { <<118>> }
Commands == { "PING" }
Parameters == { <<[t |-> "Int64", i |-> 1], [t |-> "Binary", b |-> <<118>>]>> }

----------------------------------------------------------------------------
(* What one call did: its result, the table it leaves, and its trace. *)

\* res      the typed result returned to the guest
\* conns    the connection table after the call
\* steps    the steps taken, in order
\* admitted the addresses the allow-list check admitted
\* dials    the addresses handed to the driver's dial, with its answer
\* cmds     the driver commands issued, with the driver's reply
\* reached  the connections that get_conn resolved the handle to
\* fresh    the resources created for the guest
\* made     the number of connections stored in the table
\* trap     whether the outer anyhow::Result is Err: the call traps instead
\*          of returning res
Outcome(res, conns, steps) ==
    [res |-> res, conns |-> conns, steps |-> steps, admitted |-> <<>>,
     dials |-> <<>>, cmds |-> <<>>, reached |-> <<>>, fresh |-> <<>>, made |-> 0,
     trap |-> FALSE]

\* o, preceded by the steps and admissions of what ran before it.
Then(steps, admitted, dials, made, o) ==
    [o EXCEPT !.steps = steps \o @, !.admitted = admitted \o @,
              !.dials = dials \o @, !.made = made + @]

\* establish_connection reporting a full table as a driver error.
establish_connection_FullIsOther(conns, address, dialOk, id) ==
    IF ~ClientOpen(address)
    THEN Outcome(Err(InvalidAddress), conns, <<"parse">>)
    ELSE IF ~dialOk
    THEN [Outcome(Err(other_error([kind |-> "IoError", msg |-> <<"refused">>])),
                  conns, <<"parse", "dial">>)
            EXCEPT !.dials = <<[addr |-> address, ok |-> FALSE]>>]
    ELSE LET p == TablePush(conns, [id |-> id, addr |-> address]) IN
         IF p.ok
         THEN [Outcome(Ok(p.key), p.table, <<"parse", "dial", "push">>)
                 EXCEPT !.dials = <<[addr |-> address, ok |-> TRUE]>>, !.made = 1,
                        !.fresh = <<[rep |-> p.key, id |-> id]>>]
         ELSE [Outcome(Err(other_error(TooManyConnections)), conns,
                       <<"parse", "dial", "push">>)
                 EXCEPT !.dials = <<[addr |-> address, ok |-> TRUE]>>]

\* establish_connection keeping the connection although the push failed.
establish_connection_Overfill(conns, address, dialOk, id) ==
    IF ~ClientOpen(address)
    THEN Outcome(Err(InvalidAddress), conns, <<"parse">>)
    ELSE IF ~dialOk
    THEN [Outcome(Err(other_error([kind |-> "IoError", msg |-> <<"refused">>])),
                  conns, <<"parse", "dial">>)
            EXCEPT !.dials = <<[addr |-> address, ok |-> FALSE]>>]
    ELSE LET p == TablePush(conns, [id |-> id, addr |-> address])
             k == Cardinality(DOMAIN conns)
         IN
         IF p.ok
         THEN [Outcome(Ok(p.key), p.table, <<"parse", "dial", "push">>)
                 EXCEPT !.dials = <<[addr |-> address, ok |-> TRUE]>>, !.made = 1,
                        !.fresh = <<[rep |-> p.key, id |-> id]>>]
         ELSE [Outcome(Ok(k),
                       [x \in DOMAIN conns \cup {k} |->
                           IF x = k THEN [id |-> id, addr |-> address] ELSE conns[x]],
                       <<"parse", "dial", "push">>)
                 EXCEPT !.dials = <<[addr |-> address, ok |-> TRUE]>>, !.made = 1,
                        !.fresh = <<[rep |-> k, id |-> id]>>]

\* establish_connection storing a connection although the dial failed.
establish_connection_KeepsFailedDial(conns, address, dialOk, id) ==
    IF ~ClientOpen(address)
    THEN Outcome(Err(InvalidAddress), conns, <<"parse">>)
    ELSE LET p == TablePush(conns, [id |-> id, addr |-> address]) IN
         IF ~dialOk
         THEN [Outcome(Err(other_error([kind |-> "IoError", msg |-> <<"refused">>])),
                       p.table, <<"parse", "push", "dial">>)
                 EXCEPT !.dials = <<[addr |-> address, ok |-> FALSE]>>,
                        !.made = IF p.ok THEN 1 ELSE 0]
         ELSE IF p.ok
         THEN [Outcome(Ok(p.key), p.table, <<"parse", "dial", "push">>)
                 EXCEPT !.dials = <<[addr |-> address, ok |-> TRUE]>>, !.made = 1,
                        !.fresh = <<[rep |-> p.key, id |-> id]>>]
         ELSE [Outcome(Err(TooManyConnections), conns, <<"parse", "dial", "push">>)
                 EXCEPT !.dials = <<[addr |-> address, ok |-> TRUE]>>]

\* establish_connection that looks at the table's capacity before it dials.
establish_connection_CapacityFirst(conns, address, dialOk, id) ==
    IF ~ClientOpen(address)
    THEN Outcome(Err(InvalidAddress), conns, <<"parse">>)
    ELSE IF Cardinality(DOMAIN conns) = Capacity
    THEN Outcome(Err(TooManyConnections), conns, <<"parse", "push">>)
    ELSE IF ~dialOk
    THEN [Outcome(Err(other_error([kind |-> "IoError", msg |-> <<"refused">>])),
                  conns, <<"parse", "dial">>)
            EXCEPT !.dials = <<[addr |-> address, ok |-> FALSE]>>]
    ELSE LET p == TablePush(conns, [id |-> id, addr |-> address]) IN
         [Outcome(Ok(p.key), p.table, <<"parse", "dial", "push">>)
            EXCEPT !.dials = <<[addr |-> address, ok |-> TRUE]>>, !.made = 1,
                   !.fresh = <<[rep |-> p.key, id |-> id]>>]

\* OutboundRedis::establish_connection; dialOk is the driver's answer to
\* get_async_connection and id the identity of the connection it makes.
establish_connection(conns, address, dialOk, id) ==
    IF ~ClientOpen(address)
    THEN Outcome(Err(InvalidAddress), conns, <<"parse">>)
    ELSE IF ~dialOk
    THEN [Outcome(Err(other_error([kind |-> "IoError", msg |-> <<"refused">>])),
                  conns, <<"parse", "dial">>)
            EXCEPT !.dials = <<[addr |-> address, ok |-> FALSE]>>]
    ELSE LET p == TablePush(conns, [id |-> id, addr |-> address]) IN
         IF p.ok
         THEN [Outcome(Ok(p.key), p.table, <<"parse", "dial", "push">>)
                 EXCEPT !.dials = <<[addr |-> address, ok |-> TRUE]>>, !.made = 1,
                        !.fresh = <<[rep |-> p.key, id |-> id]>>]
         ELSE [Outcome(Err(TooManyConnections), conns, <<"parse", "dial", "push">>)
                 EXCEPT !.dials = <<[addr |-> address, ok |-> TRUE]>>]

\* open without its allow-list check.
open_Unchecked(conns, address, dialOk, id) ==
    establish_connection(conns, address, dialOk, id)

\* v2::HostConnection::open.
open(conns, address, dialOk, id) ==
    IF ~is_address_allowed(address)
    THEN Outcome(Err(InvalidAddress), conns, <<"check">>)
    ELSE Then(<<"check">>, <<address>>, <<>>, 0,
              establish_connection(conns, address, dialOk, id))

\* OutboundRedis::get_conn.
get_conn(conns, rep) ==
    LET g == TableGetMut(conns, rep) IN
    IF g.some THEN Ok(g.v)
    ELSE Err(Other(<<"could not find connection for resource">>))

\* Issue that closes the connection when the driver refuses the command.
Issue_DropsOnError(conns, conn, name, args, reply, res) ==
    [Outcome(res,
             IF reply.ok THEN conns
             ELSE [k \in {j \in DOMAIN conns : conns[j].id # conn.id} |-> conns[k]],
             <<"get_conn", "command">>)
       EXCEPT !.cmds = <<[conn |-> conn.id, addr |-> conn.addr,
                          name |-> name, args |-> args, reply |-> reply]>>,
              !.reached = <<conn.id>>]

\* Issue that sends the command a second time when the driver refuses it.
Issue_RetriesOnError(conns, conn, name, args, reply, res) ==
    LET cmd == [conn |-> conn.id, addr |-> conn.addr,
                name |-> name, args |-> args, reply |-> reply] IN
    [Outcome(res, conns, <<"get_conn", "command">>)
       EXCEPT !.cmds = IF reply.ok THEN <<cmd>> ELSE <<cmd, cmd>>,
              !.reached = <<conn.id>>]

\* The driver command a v2 operation issues on a resolved connection, and
\* the outcome built from the driver's reply by the operation's mapping.
Issue(conns, conn, name, args, reply, res) ==
    [Outcome(res, conns, <<"get_conn", "command">>)
       EXCEPT !.cmds = <<[conn |-> conn.id, addr |-> conn.addr,
                          name |-> name, args |-> args, reply |-> reply]>>,
              !.reached = <<conn.id>>]

\* A failed get_conn that leaves the handler through the outer Result.
Unresolved_Traps(conns, e) ==
    [Outcome(Err(e), conns, <<"get_conn">>) EXCEPT !.trap = TRUE]

\* The outcome when get_conn fails with error e.
Unresolved(conns, e) == Outcome(Err(e), conns, <<"get_conn">>)

----------------------------------------------------------------------------
(* The v2 operations (impl v2::HostConnection for OutboundRedis). *)

publish(conns, rep, channel, payload, reply) ==
    LET c == get_conn(conns, rep) IN
    IF ~c.ok THEN Unresolved(conns, other_error(c.err))
    ELSE Issue(conns, c.val, "PUBLISH", <<channel, payload>>, reply,
               IF reply.ok THEN Ok(FromValueUnit(reply.val))
               ELSE Err(other_error(reply.err)))

\* get reporting an absent key as an error.
get_NilIsError(conns, rep, key, reply) ==
    LET c == get_conn(conns, rep) IN
    IF ~c.ok THEN Unresolved(conns, other_error(c.err))
    ELSE Issue(conns, c.val, "GET", <<key>>, reply,
               IF reply.ok /\ reply.val.t # "Nil"
               THEN Ok(FromValueOptionBytes(reply.val))
               ELSE Err(other_error([kind |-> "TypeError", msg |-> <<"nil">>])))

get(conns, rep, key, reply) ==
    LET c == get_conn(conns, rep) IN
    IF ~c.ok THEN Unresolved(conns, other_error(c.err))
    ELSE Issue(conns, c.val, "GET", <<key>>, reply,
               IF reply.ok THEN Ok(FromValueOptionBytes(reply.val))
               ELSE Err(other_error(reply.err)))

set(conns, rep, key, value, reply) ==
    LET c == get_conn(conns, rep) IN
    IF ~c.ok THEN Unresolved(conns, other_error(c.err))
    ELSE Issue(conns, c.val, "SET", <<key, value>>, reply,
               IF reply.ok THEN Ok(FromValueUnit(reply.val))
               ELSE Err(other_error(reply.err)))

incr(conns, rep, key, reply) ==
    LET c == get_conn(conns, rep) IN
    IF ~c.ok THEN Unresolved(conns, other_error(c.err))
    ELSE Issue(conns, c.val, "INCRBY", <<key, 1>>, reply,
               IF reply.ok THEN Ok(FromValueInt(reply.val))
               ELSE Err(other_error(reply.err)))

del(conns, rep, keys, reply) ==
    LET c == get_conn(conns, rep) IN
    IF ~c.ok THEN Unresolved(conns, other_error(c.err))
    ELSE Issue(conns, c.val, "DEL", <<keys>>, reply,
               IF reply.ok THEN Ok(FromValueInt(reply.val))
               ELSE Err(other_error(reply.err)))

\* The error mapping of sadd without the TypeError case.
sadd_error_AlwaysOther(e) == Other(to_string(e))

\* The error mapping of sadd: ErrorKind::TypeError is kept apart.
sadd_error(e) ==
    IF e.kind = "TypeError" THEN TypeError ELSE Other(to_string(e))

sadd(conns, rep, key, values, reply) ==
    LET c == get_conn(conns, rep) IN
    IF ~c.ok THEN Unresolved(conns, other_error(c.err))
    ELSE Issue(conns, c.val, "SADD", <<key, values>>, reply,
               IF reply.ok THEN Ok(FromValueInt(reply.val))
               ELSE Err(sadd_error(reply.err)))

smembers(conns, rep, key, reply) ==
    LET c == get_conn(conns, rep) IN
    IF ~c.ok THEN Unresolved(conns, other_error(c.err))
    ELSE Issue(conns, c.val, "SMEMBERS", <<key>>, reply,
               IF reply.ok THEN Ok(FromValueStrings(reply.val))
               ELSE Err(other_error(reply.err)))

srem(conns, rep, key, values, reply) ==
    LET c == get_conn(conns, rep) IN
    IF ~c.ok THEN Unresolved(conns, other_error(c.err))
    ELSE Issue(conns, c.val, "SREM", <<key, values>>, reply,
               IF reply.ok THEN Ok(FromValueInt(reply.val))
               ELSE Err(other_error(reply.err)))

execute(conns, rep, command, arguments, reply) ==
    LET c == get_conn(conns, rep) IN
    IF ~c.ok THEN Unresolved(conns, c.err)
    ELSE Issue(conns, c.val, command, arguments, reply,
               IF reply.ok THEN Ok(from_redis_value(reply.val).val)
               ELSE Err(other_error(reply.err)))

\* drop that leaves the entry in the table.
drop_KeepsEntry(conns, rep) == Outcome(Ok(Unit), conns, <<"remove">>)

\* drop that empties the table.
drop_ClearsTable(conns, rep) == Outcome(Ok(Unit), EmptyTable, <<"remove">>)

\* v2::HostConnection::drop.
drop(conns, rep) == Outcome(Ok(Unit), TableRemove(conns, rep), <<"remove">>)

----------------------------------------------------------------------------
(* The v1 operations (impl v1::Host for OutboundRedis). *)

\* <Self as v2::HostConnection>::$name(self, connection, $($arg),*): the v2
\* operation that the macro's $name selects, on its arguments.
v2_call(name, conns, rep, args, reply) ==
    CASE name = "publish" -> publish(conns, rep, args[1], args[2], reply)
      [] name = "get" -> get(conns, rep, args[1], reply)
      [] name = "set" -> set(conns, rep, args[1], args[2], reply)
      [] name = "incr" -> incr(conns, rep, args[1], reply)
      [] name = "del" -> del(conns, rep, args[1], reply)
      [] name = "sadd" -> sadd(conns, rep, args[1], args[2], reply)
      [] name = "smembers" -> smembers(conns, rep, args[1], reply)
      [] name = "srem" -> srem(conns, rep, args[1], args[2], reply)
      [] name = "execute" -> execute(conns, rep, args[1], args[2], reply)

\* delegate! handing the v2 error to the v1 caller as it is.
delegate_PassesError(conns, name, address, args, dialOk, id, reply) ==
    IF ~is_address_allowed(address)
    THEN Outcome(Err(InvalidAddress), conns, <<"check">>)
    ELSE LET e == Then(<<"check">>, <<address>>, <<>>, 0,
                       establish_connection(conns, address, dialOk, id)) IN
         IF e.trap \/ ~e.res.ok THEN e
         ELSE LET o == Then(e.steps, e.admitted, e.dials, e.made,
                            v2_call(name, e.conns, e.res.val, args, reply)) IN
              [o EXCEPT !.fresh = e.fresh \o @]

\* delegate! releasing the handle it opened once the operation is done.
delegate_ClosesHandle(conns, name, address, args, dialOk, id, reply) ==
    IF ~is_address_allowed(address)
    THEN Outcome(Err(V1Error), conns, <<"check">>)
    ELSE LET e == Then(<<"check">>, <<address>>, <<>>, 0,
                       establish_connection(conns, address, dialOk, id)) IN
         IF ~e.res.ok
         THEN [e EXCEPT !.res = Err(V1Error)]
         ELSE LET o == Then(e.steps, e.admitted, e.dials, e.made,
                            v2_call(name, e.conns, e.res.val, args, reply)) IN
              [o EXCEPT !.fresh = e.fresh \o @,
                        !.conns = TableRemove(@, e.res.val),
                        !.res = IF @.ok THEN @ ELSE Err(V1Error)]

\* delegate! making room in a full table by removing its first entry.
delegate_EvictsWhenFull(conns, name, address, args, dialOk, id, reply) ==
    IF ~is_address_allowed(address)
    THEN Outcome(Err(V1Error), conns, <<"check">>)
    ELSE LET room == IF Cardinality(DOMAIN conns) = Capacity
                     THEN TableRemove(conns, Min(DOMAIN conns)) ELSE conns
             e == Then(<<"check">>, <<address>>, <<>>, 0,
                       establish_connection(room, address, dialOk, id)) IN
         IF ~e.res.ok
         THEN [e EXCEPT !.res = Err(V1Error)]
         ELSE LET o == Then(e.steps, e.admitted, e.dials, e.made,
                            v2_call(name, e.conns, e.res.val, args, reply)) IN
              [o EXCEPT !.fresh = e.fresh \o @,
                        !.res = IF @.ok THEN @ ELSE Err(V1Error)]

\* delegate! running the operation on the table's first handle instead of
\* the one it has just opened.
delegate_UsesFirstSlot(conns, name, address, args, dialOk, id, reply) ==
    IF ~is_address_allowed(address)
    THEN Outcome(Err(V1Error), conns, <<"check">>)
    ELSE LET e == Then(<<"check">>, <<address>>, <<>>, 0,
                       establish_connection(conns, address, dialOk, id)) IN
         IF ~e.res.ok
         THEN [e EXCEPT !.res = Err(V1Error)]
         ELSE LET o == Then(e.steps, e.admitted, e.dials, e.made,
                            v2_call(name, e.conns, Min(DOMAIN e.conns), args, reply)) IN
              [o EXCEPT !.fresh = e.fresh \o @,
                        !.res = IF @.ok THEN @ ELSE Err(V1Error)]

\* macro delegate!: the allow-list check, establish_connection, then the v2
\* operation of the same name on the new handle; every error becomes
\* v1::Error::Error.
delegate(conns, name, address, args, dialOk, id, reply) ==
    IF ~is_address_allowed(address)
    THEN Outcome(Err(V1Error), conns, <<"check">>)
    ELSE LET e == Then(<<"check">>, <<address>>, <<>>, 0,
                       establish_connection(conns, address, dialOk, id)) IN
         IF e.trap THEN e
         ELSE IF ~e.res.ok
         THEN [e EXCEPT !.res = Err(V1Error)]
         ELSE LET o == Then(e.steps, e.admitted, e.dials, e.made,
                            v2_call(name, e.conns, e.res.val, args, reply)) IN
              [o EXCEPT !.fresh = e.fresh \o @,
                        !.res = IF @.ok THEN @ ELSE Err(V1Error)]

\* Option::unwrap_or_default for Option<Vec<u8>>.
unwrap_or_default(v) == IF v.some THEN v.v ELSE <<>>

\* `v as i64` for a u32 count: the same number.
as_i64(v) == v

\* Into::into between the v1 and v2 RedisParameter and RedisResult types,
\* variant for variant.
IntoV2Parameters(ps) ==
    [i \in 1 .. Len(ps) |->
        IF ps[i].t = "Int64" THEN Int64(ps[i].i) ELSE Binary(ps[i].b)]
IntoV1Results(rs) ==
    [i \in 1 .. Len(rs) |->
        CASE rs[i].t = "Int64" -> Int64(rs[i].i)
          [] rs[i].t = "Binary" -> Binary(rs[i].b)
          [] rs[i].t = "Status" -> StatusResult(rs[i].s)
          [] OTHER -> Nil]

v1_publish(conns, address, channel, payload, dialOk, id, reply) ==
    delegate(conns, "publish", address, <<channel, payload>>, dialOk, id, reply)

v1_get(conns, address, key, dialOk, id, reply) ==
    LET o == delegate(conns, "get", address, <<key>>, dialOk, id, reply) IN
    [o EXCEPT !.res = IF @.ok THEN Ok(unwrap_or_default(@.val)) ELSE @]

v1_set(conns, address, key, value, dialOk, id, reply) ==
    delegate(conns, "set", address, <<key, value>>, dialOk, id, reply)

v1_incr(conns, address, key, dialOk, id, reply) ==
    delegate(conns, "incr", address, <<key>>, dialOk, id, reply)

v1_del(conns, address, keys, dialOk, id, reply) ==
    LET o == delegate(conns, "del", address, <<keys>>, dialOk, id, reply) IN
    [o EXCEPT !.res = IF @.ok THEN Ok(as_i64(@.val)) ELSE @]

v1_sadd(conns, address, key, values, dialOk, id, reply) ==
    LET o == delegate(conns, "sadd", address, <<key, values>>, dialOk, id, reply) IN
    [o EXCEPT !.res = IF @.ok THEN Ok(as_i64(@.val)) ELSE @]

v1_smembers(conns, address, key, dialOk, id, reply) ==
    delegate(conns, "smembers", address, <<key>>, dialOk, id, reply)

v1_srem(conns, address, key, values, dialOk, id, reply) ==
    LET o == delegate(conns, "srem", address, <<key, values>>, dialOk, id, reply) IN
    [o EXCEPT !.res = IF @.ok THEN Ok(as_i64(@.val)) ELSE @]

v1_execute(conns, address, command, arguments, dialOk, id, reply) ==
    LET o == delegate(conns, "execute", address,
                      <<command, IntoV2Parameters(arguments)>>, dialOk, id, reply) IN
    [o EXCEPT !.res = IF @.ok THEN Ok(IntoV1Results(@.val)) ELSE @]

----------------------------------------------------------------------------
(* The state machine: one guest call at a time on one instance. *)

Range(f) == { f[i] : i \in DOMAIN f }

NoHandle == [rep |-> -1, id |-> 0]
NoAddress == ""

\* The resources a caller can present: those it was given, live or stale,
\* and integers it was never given (id 0).
Handles == issued \cup { [rep |-> r, id |-> 0] : r \in 0 .. Capacity }

\* The state after a call with outcome o.  The handlers take &mut self and
\* the guest waits for the result: one call at a time.
Call(surface, verb, address, handle, outcome) ==
    /\ pc = "idle"
    /\ pc' = "returned"
    /\ \E o \in {outcome} :
        /\ connections' = o.conns
        /\ nextId' = nextId + o.made
        /\ issued' = IF surface = "v2" THEN issued \cup Range(o.fresh) ELSE issued
        /\ closed' = CASE verb = "drop" -> closed \cup {handle.rep}
                       [] handle = NoHandle -> {}
                       [] OTHER -> closed
        /\ last' = [surface |-> surface, verb |-> verb, address |-> address,
                    handle |-> handle, before |-> connections, res |-> o.res,
                    steps |-> o.steps, admitted |-> o.admitted,
                    dials |-> o.dials, cmds |-> o.cmds, reached |-> o.reached,
                    fresh |-> o.fresh, trap |-> o.trap]
    /\ UNCHANGED <<redis_value, redis_results>>

\* The driver's answer to a dial, within the bound on stored connections.
DialAnswers ==
    { d \in BOOLEAN :
        d => nextId <= MaxConns \/ Cardinality(DOMAIN connections) = Capacity }

NoCall ==
    [surface |-> "none", verb |-> "none", address |-> NoAddress,
     handle |-> NoHandle, before |-> EmptyTable, res |-> Ok(Unit),
     steps |-> <<>>, admitted |-> <<>>, dials |-> <<>>,
     cmds |-> <<>>, reached |-> <<>>, fresh |-> <<>>, trap |-> FALSE]

Init ==
    /\ connections = EmptyTable
    /\ issued = {}
    /\ closed = {}
    /\ nextId = 1
    /\ pc = "idle"
    /\ last = NoCall
    /\ redis_value = Nil
    /\ redis_results = None

\* The guest takes the result of the call and goes on.
Return ==
    /\ pc = "returned"
    /\ pc' = "idle"
    /\ last' = NoCall
    /\ UNCHANGED <<connections, issued, closed, nextId, redis_value, redis_results>>

V2Open ==
    \E address \in Addresses, dialOk \in DialAnswers :
        Call("v2", "open", address, NoHandle,
             open(connections, address, dialOk, nextId))

V2Publish ==
    \E h \in Handles, payload \in Payloads, reply \in DriverReplies("PUBLISH") :
        Call("v2", "publish", NoAddress, h,
             publish(connections, h.rep, "ch", payload, reply))

V2Get ==
    \E h \in Handles, key \in Keys, reply \in DriverReplies("GET") :
        Call("v2", "get", NoAddress, h, get(connections, h.rep, key, reply))

V2Set ==
    \E h \in Handles, key \in Keys, value \in Payloads,
       reply \in DriverReplies("SET") :
        Call("v2", "set", NoAddress, h,
             set(connections, h.rep, key, value, reply))

V2Incr ==
    \E h \in Handles, key \in Keys, reply \in DriverReplies("INCRBY") :
        Call("v2", "incr", NoAddress, h, incr(connections, h.rep, key, reply))

V2Del ==
    \E h \in Handles, key \in Keys, reply \in DriverReplies("DEL") :
        Call("v2", "del", NoAddress, h,
             del(connections, h.rep, <<key>>, reply))

V2Sadd ==
    \E h \in Handles, key \in Keys, values \in Members,
       reply \in DriverReplies("SADD") :
        Call("v2", "sadd", NoAddress, h,
             sadd(connections, h.rep, key, values, reply))

V2Smembers ==
    \E h \in Handles, key \in Keys, reply \in DriverReplies("SMEMBERS") :
        Call("v2", "smembers", NoAddress, h,
             smembers(connections, h.rep, key, reply))

V2Srem ==
    \E h \in Handles, key \in Keys, values \in Members,
       reply \in DriverReplies("SREM") :
        Call("v2", "srem", NoAddress, h,
             srem(connections, h.rep, key, values, reply))

V2Execute ==
    \E h \in Handles, command \in Commands, arguments \in Parameters :
        \E reply \in DriverReplies(command) :
            Call("v2", "execute", NoAddress, h,
                 execute(connections, h.rep, command, arguments, reply))

V2Drop ==
    \E h \in Handles :
        Call("v2", "drop", NoAddress, h, drop(connections, h.rep))

V1Publish ==
    \E address \in Addresses, dialOk \in DialAnswers, payload \in Payloads,
       reply \in DriverReplies("PUBLISH") :
        Call("v1", "publish", address, NoHandle,
             v1_publish(connections, address, "ch", payload, dialOk, nextId, reply))

V1Get ==
    \E address \in Addresses, dialOk \in DialAnswers, key \in Keys,
       reply \in DriverReplies("GET") :
        Call("v1", "get", address, NoHandle,
             v1_get(connections, address, key, dialOk, nextId, reply))

V1Set ==
    \E address \in Addresses, dialOk \in DialAnswers, key \in Keys,
       value \in Payloads, reply \in DriverReplies("SET") :
        Call("v1", "set", address, NoHandle,
             v1_set(connections, address, key, value, dialOk, nextId, reply))

V1Incr ==
    \E address \in Addresses, dialOk \in DialAnswers, key \in Keys,
       reply \in DriverReplies("INCRBY") :
        Call("v1", "incr", address, NoHandle,
             v1_incr(connections, address, key, dialOk, nextId, reply))

V1Del ==
    \E address \in Addresses, dialOk \in DialAnswers, key \in Keys,
       reply \in DriverReplies("DEL") :
        Call("v1", "del", address, NoHandle,
             v1_del(connections, address, <<key>>, dialOk, nextId, reply))

V1Sadd ==
    \E address \in Addresses, dialOk \in DialAnswers, key \in Keys,
       values \in Members, reply \in DriverReplies("SADD") :
        Call("v1", "sadd", address, NoHandle,
             v1_sadd(connections, address, key, values, dialOk, nextId, reply))

V1Smembers ==
    \E address \in Addresses, dialOk \in DialAnswers, key \in Keys,
       reply \in DriverReplies("SMEMBERS") :
        Call("v1", "smembers", address, NoHandle,
             v1_smembers(connections, address, key, dialOk, nextId, reply))

V1Srem ==
    \E address \in Addresses, dialOk \in DialAnswers, key \in Keys,
       values \in Members, reply \in DriverReplies("SREM") :
        Call("v1", "srem", address, NoHandle,
             v1_srem(connections, address, key, values, dialOk, nextId, reply))

V1Execute ==
    \E address \in Addresses, dialOk \in DialAnswers, command \in Commands,
       arguments \in Parameters :
        \E reply \in DriverReplies(command) :
            Call("v1", "execute", address, NoHandle,
                 v1_execute(connections, address, command, arguments,
                            dialOk, nextId, reply))

Next ==
    \/ V2Open
    \/ V2Publish
    \/ V2Get
    \/ V2Set
    \/ V2Incr
    \/ V2Del
    \/ V2Sadd
    \/ V2Smembers
    \/ V2Srem
    \/ V2Execute
    \/ V2Drop
    \/ V1Publish
    \/ V1Get
    \/ V1Set
    \/ V1Incr
    \/ V1Del
    \/ V1Sadd
    \/ V1Smembers
    \/ V1Srem
    \/ V1Execute
    \/ Return

Spec == Init /\ [][Next]_vars

----------------------------------------------------------------------------
(* RedisResults::from_redis_value on its own: the driver builds a reply,    *)
(* node by node in the order it emits them, and hands it over once.        *)

\* The replies of one node: the markers, the scalars and the empty sequence.
Nodes ==
    { Nil, Okay, IntV(1), Data(<<97>>), Data(<<98>>), Status("OK"), Bulk(<<>>) }

\* Number of nodes of a reply.
RECURSIVE Size(_)
Size(v) ==
    IF v.t # "Bulk" THEN 1
    ELSE LET RECURSIVE sum(_)
             sum(i) == IF i > Len(v.items) THEN 0
                       ELSE Size(v.items[i]) + sum(i + 1)
         IN 1 + sum(1)

\* The replies that extend v by node n as the next one in emission order:
\* n is the new last item of a sequence on the rightmost path of v.
RECURSIVE Extended(_, _)
Extended(v, n) ==
    IF v.t # "Bulk" THEN {}
    ELSE {Bulk(Append(v.items, n))} \cup
         (IF v.items = <<>> THEN {}
          ELSE { Bulk([v.items EXCEPT ![Len(v.items)] = w]) :
                     w \in Extended(v.items[Len(v.items)], n) })

FlattenInit ==
    /\ connections = EmptyTable
    /\ issued = {}
    /\ closed = {}
    /\ nextId = 1
    /\ last = NoCall
    /\ pc = "reply"
    /\ redis_value \in Nodes
    /\ redis_results = None

\* The driver emits one more node of the reply.
Emit ==
    /\ pc = "reply"
    /\ Size(redis_value) < MaxNodes
    /\ \E n \in Nodes : redis_value' \in Extended(redis_value, n)
    /\ UNCHANGED <<connections, issued, closed, nextId, pc, last, redis_results>>

\* query_async::<_, RedisResults> converts the complete reply.
Flatten ==
    /\ pc = "reply"
    /\ pc' = "flattened"
    /\ redis_results' = Some(from_redis_value(redis_value))
    /\ UNCHANGED <<connections, issued, closed, nextId, last, redis_value>>

FlattenNext == Emit \/ Flatten

FlattenSpec == FlattenInit /\ [][FlattenNext]_vars

----------------------------------------------------------------------------
(* Properties.  They are stated on the call that has just returned: its  *)
(* inputs, its result, its trace and the table before and after it.      *)

Returned == pc = "returned"
Live(t) == Cardinality(DOMAIN t)
Operations ==
    { "publish", "get", "set", "incr", "del", "sadd", "smembers", "srem",
      "execute" }
V2Operation == Returned /\ last.surface = "v2" /\ last.verb \in Operations
OpenStep ==
    Returned /\ (last.surface = "v1" \/ (last.surface = "v2" /\ last.verb = "open"))

\* The policy's verdict on an address.
Admits(address) == check_url(address, "redis", AllowedHosts)

\* Step a comes before step b in the call's trace.
Before(steps, a, b) ==
    \E i, j \in DOMAIN steps : i < j /\ steps[i] = a /\ steps[j] = b

\* C1: every driver dial of a call, on the v2 open path and on the path of
\* each of the nine v1 verbs, is for the call's own address, the policy
\* admits that address, and the allow-list check ran before the dial in that
\* call; no dial is made for an address the policy denies.
C1_DialOnlyAfterAdmission ==
    Returned =>
        \A i \in DOMAIN last.dials :
            /\ last.dials[i].addr = last.address
            /\ Admits(last.dials[i].addr)
            /\ Before(last.steps, "check", "dial")

\* A v1 call and a v2 open have each dialled the driver: here a v1 sadd.
C1_Witness ==
    /\ Returned
    /\ last.surface = "v1"
    /\ last.verb = "sadd"
    /\ Len(last.dials) = 1
    /\ Live(last.before) = 1

\* C2: a v2 open of an address the policy does not admit returns
\* InvalidAddress and leaves the table exactly as it was.
C2_DeniedOpenLeavesTable ==
    (Returned /\ last.surface = "v2" /\ last.verb = "open" /\ ~Admits(last.address))
        => /\ last.res = Err(InvalidAddress)
           /\ connections = last.before
           /\ last.dials = <<>>

\* A denied open on a table that already holds a connection.
C2_Witness ==
    /\ Returned
    /\ last.surface = "v2"
    /\ last.verb = "open"
    /\ last.address = "redis://evil.example:6379"
    /\ Live(last.before) = 1
    /\ last.res = Err(InvalidAddress)

\* The call's dial was answered with a connection.
Dialled == Len(last.dials) = 1 /\ last.dials[1].ok

\* C3 as stated: with Capacity connections live, every further v2 open
\* returns TooManyConnections and the live-count stays at Capacity.
C3_FullTableOpenIsTooMany ==
    (Returned /\ last.surface = "v2" /\ last.verb = "open"
        /\ Live(last.before) = Capacity)
        => /\ last.res = Err(TooManyConnections)
           /\ Live(connections) = Capacity

\* C3, amended: with Capacity connections live, a further v2 open leaves the
\* table as it was, at Capacity; it returns TooManyConnections exactly when
\* its address is admitted and accepted by the client and the dial succeeds,
\* and InvalidAddress or Other when it fails before the insert.
C3_FullTableOpen ==
    (Returned /\ last.surface = "v2" /\ last.verb = "open"
        /\ Live(last.before) = Capacity)
        => /\ connections = last.before
           /\ Live(connections) = Capacity
           /\ ~last.res.ok
           /\ (Admits(last.address) /\ ClientOpen(last.address) /\ Dialled)
                  => last.res = Err(TooManyConnections)
           /\ ~(Admits(last.address) /\ ClientOpen(last.address))
                  => last.res = Err(InvalidAddress)
           /\ (Admits(last.address) /\ ClientOpen(last.address) /\ ~Dialled)
                  => last.res.err.kind = "Other"

\* The open after Capacity successful opens, dial answered, is refused.
C3_Witness ==
    /\ Returned
    /\ last.surface = "v2"
    /\ last.verb = "open"
    /\ Live(last.before) = Capacity
    /\ Dialled
    /\ last.res = Err(TooManyConnections)

\* C4: in every state the table holds at most Capacity live entries.
C4_LiveCountBounded == Live(connections) <= Capacity

\* A v1 call whose dial succeeded has met the full table.
C4_Witness ==
    /\ Returned
    /\ last.surface = "v1"
    /\ Dialled
    /\ Live(last.before) = Capacity
    /\ Live(connections) = Capacity
    /\ last.res = Err(V1Error)

\* An error kind the v2 Error type does not have.
NotFound == [kind |-> "NotFound", msg |-> <<>>]

\* C5 as stated: a v2 operation on a handle dropped with no open since
\* returns the error NotFound.
C5_ClosedHandleIsNotFound ==
    (V2Operation /\ last.handle.rep \in closed) => last.res = Err(NotFound)

\* C5, amended: a v2 operation on a handle dropped with no open since
\* returns an error of kind Other whose message says that the connection
\* could not be found, and issues no driver command.
C5_ClosedHandleIsOther ==
    (V2Operation /\ last.handle.rep \in closed)
        => /\ ~last.res.ok
           /\ last.res.err.kind = "Other"
           /\ "could not find connection for resource" \in Range(last.res.err.msg)
           /\ last.cmds = <<>>

\* An execute on a handle that open issued and drop closed, while another
\* connection is live.
C5_Witness ==
    /\ V2Operation
    /\ last.verb = "execute"
    /\ last.handle \in issued
    /\ last.handle.rep \in closed
    /\ Live(connections) >= 1

Stale(h, t) ==
    /\ h \in issued
    /\ h.rep \notin DOMAIN t \/ t[h.rep].id # h.id

\* C7: a v2 operation presented with a handle whose connection was
\* destroyed reaches no connection, also when the handle's integer has been
\* issued again for a new connection.
C7_StaleHandleNeverResolves ==
    (V2Operation /\ Stale(last.handle, last.before)) => last.reached = <<>>

\* C8: the table changes, other than by drop, only in a call whose open step
\* succeeded: the address admitted and accepted, the dial answered, the table
\* below Capacity; then exactly one entry is added, under a key that no live
\* entry had, and the other entries stay.  A v2 open that fails leaves the
\* table unchanged and returns InvalidAddress (denied or unparseable), Other
\* (dial failure) or TooManyConnections (full table).
C8_EntryOnlyBySuccessfulOpen ==
    /\ (Returned /\ last.verb # "drop" /\ connections # last.before)
           => /\ OpenStep
              /\ Admits(last.address)
              /\ ClientOpen(last.address)
              /\ Dialled
              /\ Live(last.before) < Capacity
              /\ Len(last.fresh) = 1
              /\ last.fresh[1].rep \notin DOMAIN last.before
              /\ DOMAIN connections = DOMAIN last.before \cup {last.fresh[1].rep}
              /\ \A k \in DOMAIN last.before : connections[k] = last.before[k]
              /\ \A k \in DOMAIN last.before :
                     last.before[k].id # connections[last.fresh[1].rep].id
    /\ (OpenStep /\ last.fresh = <<>>) => connections = last.before
    /\ (Returned /\ last.surface = "v2" /\ last.verb = "open")
           => IF last.res.ok
              THEN /\ Len(last.fresh) = 1
                   /\ last.res.val = last.fresh[1].rep
                   /\ connections # last.before
              ELSE /\ connections = last.before
                   /\ last.res.err.kind =
                        IF ~(Admits(last.address) /\ ClientOpen(last.address))
                        THEN "InvalidAddress"
                        ELSE IF ~Dialled THEN "Other"
                        ELSE "TooManyConnections"

\* An open has added a second entry next to a live one.
C8_Witness ==
    /\ Returned
    /\ last.surface = "v2"
    /\ last.verb = "open"
    /\ last.res.ok
    /\ Live(last.before) = 1
    /\ Live(connections) = 2

\* C9: when the driver answers GET with nil, v2 get returns Ok(None) and v1
\* get returns Ok of the empty byte sequence.
C9_AbsentKeyIsNotAnError ==
    (Returned /\ last.verb = "get" /\ Len(last.cmds) = 1
        /\ last.cmds[1].reply = Ok(Nil))
        => /\ last.surface = "v2" => last.res = Ok(None)
           /\ last.surface = "v1" => last.res = Ok(<<>>)

\* A v1 get whose GET the driver answered with nil.
C9_Witness ==
    /\ Returned
    /\ last.surface = "v1"
    /\ last.verb = "get"
    /\ Len(last.cmds) = 1
    /\ last.cmds[1].reply = Ok(Nil)

\* C10: when the driver answers SADD with an error of kind TypeError, v2
\* sadd returns TypeError and v1 sadd returns the coarse error; any other
\* driver error makes v2 sadd return Other.
C10_SaddTypeError ==
    (Returned /\ last.verb = "sadd" /\ Len(last.cmds) = 1
        /\ ~last.cmds[1].reply.ok)
        => IF last.cmds[1].reply.err.kind = "TypeError"
           THEN /\ last.surface = "v2" => last.res = Err(TypeError)
                /\ last.surface = "v1" => last.res = Err(V1Error)
           ELSE last.surface = "v2"
                    => ~last.res.ok /\ last.res.err.kind = "Other"

\* A v2 sadd on a live handle whose SADD the driver refused as a type error.
C10_Witness ==
    /\ Returned
    /\ last.surface = "v2"
    /\ last.verb = "sadd"
    /\ Len(last.cmds) = 1
    /\ ~last.cmds[1].reply.ok
    /\ last.cmds[1].reply.err.kind = "TypeError"

\* The driver refused the call's single command.
CommandFailed == Len(last.cmds) = 1 /\ ~last.cmds[1].reply.ok

\* C11: a v1 call never traps; whenever it fails its result is the single
\* v1 Error, whatever the cause: the address denied or unparseable, the dial
\* refused, the table full, or an error of the delegated operation; and a
\* denied address is answered after the check alone, with no dial.
C11_V1ErrorsAreCoarse ==
    (Returned /\ last.surface = "v1")
        => /\ ~last.trap
           /\ ~last.res.ok => last.res = Err(V1Error)
           /\ (\/ ~Admits(last.address)
               \/ ~ClientOpen(last.address)
               \/ ~Dialled
               \/ Live(last.before) = Capacity
               \/ CommandFailed) => last.res = Err(V1Error)
           /\ ~Admits(last.address)
                  => last.steps = <<"check">> /\ last.dials = <<>>

\* A v1 call whose delegated operation the driver refused.
C11_Witness ==
    /\ Returned
    /\ last.surface = "v1"
    /\ CommandFailed
    /\ last.res = Err(V1Error)

\* The depth-first, left-to-right sequence of the scalar leaves of a reply.
RECURSIVE Leaves(_)
Leaves(v) ==
    CASE v.t = "Int" -> <<Int64(v.i)>>
      [] v.t = "Data" -> <<Binary(v.d)>>
      [] v.t = "Status" -> <<StatusResult(v.s)>>
      [] v.t = "Bulk" ->
           LET RECURSIVE from(_)
               from(i) == IF i > Len(v.items) THEN <<>>
                          ELSE Leaves(v.items[i]) \o from(i + 1)
           IN from(1)
      [] OTHER -> <<>>

\* The reply [1, ["a", "b"], nil].
ExampleReply == Bulk(<<IntV(1), Bulk(<<Data(<<97>>), Data(<<98>>)>>), Nil>>)

\* C12: from_redis_value succeeds on every reply and returns the depth-first,
\* left-to-right sequence of its scalar leaves, Int as Int64, Data as Binary,
\* Status as Status, with Nil and Okay left out; nil and the empty sequence
\* give the empty result and [1, ["a", "b"], nil] gives three values in order.
C12_FlattenIsLeavesInOrder ==
    pc = "flattened"
        => /\ redis_results.v.ok
           /\ redis_results.v.val = Leaves(redis_value)
           /\ redis_value \in {Nil, Okay, Bulk(<<>>)} => redis_results.v.val = <<>>
           /\ redis_value = ExampleReply
                  => redis_results.v.val = <<Int64(1), Binary(<<97>>), Binary(<<98>>)>>

\* The example reply has been converted to its three values.
C12_Witness ==
    /\ pc = "flattened"
    /\ redis_value = ExampleReply
    /\ redis_results = Some(Ok(<<Int64(1), Binary(<<97>>), Binary(<<98>>)>>))

\* C13: when the driver refuses the command of v2 sadd, smembers or srem
\* with an error of kind TypeError the operation returns TypeError, and for
\* any other driver error it returns Other.
C13_SetOpsTypeError ==
    (Returned /\ last.surface = "v2"
        /\ last.verb \in {"sadd", "smembers", "srem"} /\ CommandFailed)
        => IF last.cmds[1].reply.err.kind = "TypeError"
           THEN last.res = Err(TypeError)
           ELSE ~last.res.ok /\ last.res.err.kind = "Other"

\* C14: a v2 operation (execute included) on a handle that resolves to no
\* connection returns an error as its inner result, does not trap, issues
\* no driver command and reaches no connection.
C14_UnresolvedHandleFailsInline ==
    (V2Operation /\ last.handle.rep \notin DOMAIN last.before)
        => /\ ~last.trap
           /\ ~last.res.ok
           /\ last.cmds = <<>>
           /\ last.reached = <<>>
           /\ last.steps = <<"get_conn">>

\* An execute on an integer that was never issued, while a connection is live.
C14_Witness ==
    /\ V2Operation
    /\ last.verb = "execute"
    /\ last.handle \notin issued
    /\ last.handle.rep \notin DOMAIN last.before
    /\ ~last.res.ok
    /\ Live(last.before) >= 1

\* C15: a v2 operation other than open and drop leaves the table as it was:
\* the same live handles, each with the same connection, whether the
\* operation succeeded or failed.
C15_OperationsLeaveTable ==
    V2Operation
        => /\ connections = last.before
           /\ DOMAIN connections = DOMAIN last.before
           /\ \A k \in DOMAIN connections : connections[k] = last.before[k]

\* A v2 operation on a live handle of a full table whose command the driver
\* refused.
C15_Witness ==
    /\ V2Operation
    /\ CommandFailed
    /\ ~last.res.ok
    /\ Live(last.before) = Capacity
    /\ connections = last.before

\* C16: a call makes at most one driver dial and issues at most one driver
\* command; a v2 operation on a live handle issues exactly one command, and
\* a driver error, of the command or of the dial of open, is returned as the
\* call's error after that one attempt.
C16_NoRetries ==
    Returned
        => /\ Len(last.cmds) <= 1
           /\ Len(last.dials) <= 1
           /\ (V2Operation /\ last.handle.rep \in DOMAIN last.before)
                  => /\ Len(last.cmds) = 1
                     /\ ~last.cmds[1].reply.ok => ~last.res.ok
           /\ (last.surface = "v2" /\ last.verb = "open"
                  /\ Len(last.dials) = 1 /\ ~last.dials[1].ok)
                  => ~last.res.ok /\ last.res.err.kind = "Other"

\* A v2 incr on a live handle whose one command the driver refused.
C16_Witness ==
    /\ V2Operation
    /\ last.verb = "incr"
    /\ last.handle.rep \in DOMAIN last.before
    /\ Len(last.cmds) = 1
    /\ ~last.cmds[1].reply.ok
    /\ ~last.res.ok

\* The open step of the call gets as far as a successful table insert: the
\* policy admits the address, the client accepts it, the driver dials it and
\* the table has room.
OpensConnection ==
    /\ Admits(last.address)
    /\ ClientOpen(last.address)
    /\ Dialled
    /\ Live(last.before) < Capacity

\* C17: a v1 call that opens its connection leaves it in the table when it
\* returns: the entries from before are kept, the new one is added under a
\* handle that was free, and the live-count is one higher, whether the
\* delegated operation succeeded or failed; a v1 call that fails at the
\* policy check, the parse, the dial or the capacity check leaves the table
\* as it was.
C17_V1LeavesConnectionOpen ==
    (Returned /\ last.surface = "v1")
        => IF OpensConnection
           THEN /\ Len(last.fresh) = 1
                /\ Len(last.cmds) = 1
                /\ last.fresh[1].rep \notin DOMAIN last.before
                /\ last.fresh[1].rep \in DOMAIN connections
                /\ connections[last.fresh[1].rep].id = last.fresh[1].id
                /\ \A k \in DOMAIN last.before : connections[k] = last.before[k]
                /\ Live(connections) = Live(last.before) + 1
           ELSE /\ connections = last.before
                /\ last.fresh = <<>>
                /\ last.res = Err(V1Error)

\* A v1 call that opened a connection, had its command refused by the driver
\* and left the connection in the table.
C17_Witness ==
    /\ Returned
    /\ last.surface = "v1"
    /\ OpensConnection
    /\ CommandFailed
    /\ last.res = Err(V1Error)
    /\ Live(connections) = Live(last.before) + 1

\* C18 as stated: with Capacity connections live, a v1 call for an allowed,
\* connectable address returns the coarse error without a driver command,
\* every v2 open returns TooManyConnections, and no v1 call lowers the
\* live-count.
C18_FullTableEveryOpenIsTooMany ==
    /\ (Returned /\ Live(last.before) = Capacity)
           => /\ (last.surface = "v1" /\ Admits(last.address)
                     /\ ClientOpen(last.address) /\ Dialled)
                     => last.res = Err(V1Error) /\ last.cmds = <<>>
              /\ (last.surface = "v2" /\ last.verb = "open")
                     => last.res = Err(TooManyConnections)
    /\ (Returned /\ last.surface = "v1")
           => Live(connections) >= Live(last.before)

\* C18, amended: with Capacity connections live, every v1 call returns the
\* coarse error without a driver command and leaves the table as it was, and
\* a v2 open of an allowed address that the client accepts and the driver
\* dials returns TooManyConnections; no v1 call removes an entry or lowers
\* the live-count.
C18_FullTableThroughV1 ==
    /\ (Returned /\ Live(last.before) = Capacity)
           => /\ last.surface = "v1"
                     => /\ last.res = Err(V1Error)
                        /\ last.cmds = <<>>
                        /\ connections = last.before
              /\ (last.surface = "v2" /\ last.verb = "open"
                     /\ Admits(last.address) /\ ClientOpen(last.address)
                     /\ Dialled)
                     => /\ last.res = Err(TooManyConnections)
                        /\ connections = last.before
    /\ (Returned /\ last.surface = "v1")
           => /\ DOMAIN last.before \subseteq DOMAIN connections
              /\ Live(connections) >= Live(last.before)

\* A v1 call for an allowed address that the driver dialled, refused by a
\* table that is full and holds a connection that a v1 call left behind.
C18_Witness ==
    /\ Returned
    /\ last.surface = "v1"
    /\ Live(last.before) = Capacity
    /\ Admits(last.address)
    /\ ClientOpen(last.address)
    /\ Dialled
    /\ last.res = Err(V1Error)
    /\ last.cmds = <<>>
    /\ \E k \in DOMAIN last.before :
           [rep |-> k, id |-> last.before[k].id] \notin issued

\* The arguments of the v2 operation that issues the driver command cmd.
V2Arguments(verb, cmd) ==
    CASE verb = "execute" -> <<cmd.name, cmd.args>>
      [] verb = "incr" -> <<cmd.args[1]>>
      [] OTHER -> cmd.args

\* The v1 shape of a v2 result: None as empty bytes, a count as the same
\* number, every error as the v1 Error.
Narrowed(verb, r) ==
    IF ~r.ok THEN Err(V1Error)
    ELSE IF verb = "get"
    THEN Ok(IF r.val.some THEN r.val.v ELSE <<>>)
    ELSE Ok(r.val)

\* C19: a v1 call whose open succeeded issues one driver command, on the
\* connection it opened to its own address, and that command is the one the
\* v2 operation of the same name issues on that handle; for the same driver
\* reply the v1 result is the narrowing of the v2 result.
C19_V1IsNarrowedV2 ==
    (Returned /\ last.surface = "v1" /\ Len(last.fresh) = 1)
        => /\ Len(last.cmds) = 1
           /\ last.cmds[1].addr = last.address
           /\ last.cmds[1].conn = last.fresh[1].id
           /\ LET cmd == last.cmds[1]
                  v2 == v2_call(last.verb, connections, last.fresh[1].rep,
                                V2Arguments(last.verb, cmd), cmd.reply)
              IN /\ last.cmds = v2.cmds
                 /\ last.res = Narrowed(last.verb, v2.res)
                 /\ connections = v2.conns

\* A v1 del, made while another connection is live, whose DEL the driver
\* answered with a count.
C19_Witness ==
    /\ Returned
    /\ last.surface = "v1"
    /\ last.verb = "del"
    /\ Len(last.fresh) = 1
    /\ Live(last.before) = 1
    /\ Len(last.cmds) = 1
    /\ last.cmds[1].reply = Ok(IntV(2))
    /\ last.res = Ok(2)

\* The steps of a call that belong to its open step, in the order taken.
OpenSteps ==
    LET IsOpenStep(x) == x \in {"check", "parse", "dial", "push"}
    IN SelectSeq(last.steps, IsOpenStep)

\* C20: the open step of a call runs the allow-list check, the address
\* parse, the driver dial and the table insert in this order, each only
\* after the one before, and the insert only after a successful dial; on a
\* full table an allowed address that the client accepts is still dialled
\* once and the table stays as it was, a v2 open then returning
\* TooManyConnections after a successful dial and Other after a failed one.
C20_OpenOrder ==
    OpenStep
        => /\ Len(OpenSteps) \in 1 .. 4
           /\ \A i \in DOMAIN OpenSteps :
                  OpenSteps[i] = <<"check", "parse", "dial", "push">>[i]
           /\ "push" \in Range(last.steps) => Dialled
           /\ (Live(last.before) = Capacity /\ Admits(last.address)
                  /\ ClientOpen(last.address))
                  => /\ Len(last.dials) = 1
                     /\ connections = last.before
                     /\ last.fresh = <<>>
                     /\ (last.surface = "v2" /\ Dialled)
                            => last.res = Err(TooManyConnections)
                     /\ (last.surface = "v2" /\ ~Dialled)
                            => ~last.res.ok /\ last.res.err.kind = "Other"

\* A v2 open on a full table that ran all four steps, dialled once and
\* returned TooManyConnections.
C20_Witness ==
    /\ Returned
    /\ last.surface = "v2"
    /\ last.verb = "open"
    /\ Live(last.before) = Capacity
    /\ last.steps = <<"check", "parse", "dial", "push">>
    /\ Len(last.dials) = 1
    /\ last.res = Err(TooManyConnections)
    /\ connections = last.before

====
